---- MODULE Spec2Model ----
(***************************************************************************)
(* Model of apps/forensic-proxy/main.py: a FastAPI application with three  *)
(* synchronous handlers (/health, /info, /resolve) behind LogMiddleware.   *)
(* Synchronous handlers run on the framework's thread pool, so several     *)
(* requests are in flight at once; the only state they share is the file   *)
(* cookies.txt, rewritten by get_ydl_opts and read by the extraction       *)
(* library.  Strings are sequences of tokens, so that concatenation and    *)
(* the substring test of the URL filter are computed, not assumed.         *)
(***************************************************************************)
EXTENDS Integers, Sequences, FiniteSets, TLC

\* ------------------------------------------------------------------ bounds
NumRequests == 2        \* requests in flight together
MaxChunks == 2          \* chunks an upstream response yields at most
MaxCookieBlocks == 1    \* length of YOUTUBE_COOKIES in buffer-sized blocks

Requests == 1..NumRequests

\* ----------------------------------------------------------------- strings
\* needle occurs in hay as a contiguous run (Python's `needle in hay`)
Contains(needle, hay) ==
    \E i \in 0..(Len(hay) - Len(needle)) :
        \A j \in 1..Len(needle) : hay[i + j] = needle[j]

\* dict.get(key, default)
Get(d, key, default) == IF key \in DOMAIN d THEN d[key] ELSE default

Null == "null"

\* The url query parameter, as the string the handler receives.
UrlString(u) == <<"https://">> \o u.host \o u.path

URLS ==
    { [host |-> <<"www", ".", "youtube", ".com">>, path |-> <<"/watch?v=123">>],
      [host |-> <<"vimeo", ".com">>,               path |-> <<"/123">>],
      [host |-> <<"vimeo", ".com">>,               path |-> <<"/123?ref=", "youtu", ".be">>] }

\* ---------------------------------------------------------- get_ydl_opts
\* os.environ.get("YOUTUBE_COOKIES") is truthy: set and not the empty string
has_cookies(e) == e.set /\ e.value # <<>>

headers ==
    ("User-Agent" :> "Mozilla/5.0 (iPhone; CPU iPhone OS 17_5 like Mac OS X) AppleWebKit/605.1.15 (KHTML, like Gecko) Version/17.5 Mobile/15E148 Safari/604.1")
    @@ ("Accept" :> "text/html,application/xhtml+xml,application/xml;q=0.9,*/*;q=0.8")
    @@ ("Accept-Language" :> "en-US,en;q=0.9")
    @@ ("Sec-Fetch-Mode" :> "navigate")

base_opts ==
    [format |-> "bestaudio/best", quiet |-> TRUE, no_warnings |-> TRUE,
     noplaylist |-> TRUE, http_headers |-> headers]

web_strategy ==
    [cookiefile |-> "cookies.txt",
     extractor_args |-> [youtube |-> [player_client |-> <<"web">>,
                                      player_skip |-> <<"configs", "js">>]]]

mobile_strategy ==
    [force_ipv4 |-> TRUE,
     extractor_args |-> [youtube |-> [player_client |-> <<"ios", "android">>,
                                      player_skip |-> <<"webpage", "configs", "js">>]]]

\* mutant: the web strategy laid over the mobile one, so force_ipv4 stays
ydl_opts_merged(e) == IF has_cookies(e) THEN web_strategy @@ mobile_strategy @@ base_opts
                                        ELSE mobile_strategy @@ base_opts

\* base_opts.update(...): the strategy's keys over the base keys
ydl_opts(e) == IF has_cookies(e) THEN web_strategy @@ base_opts
                                 ELSE mobile_strategy @@ base_opts

NoOpts == [unset |-> TRUE]

\* cookies.txt as a sequence of blocks; a block never written reads as a hole
Hole == 0

\* write block b at the writer's own offset off (blocks written so far)
WriteAt(f, off, b) ==
    [i \in 1..(IF off + 1 > Len(f) THEN off + 1 ELSE Len(f)) |->
        IF i = off + 1 THEN b ELSE IF i <= Len(f) THEN f[i] ELSE Hole]

\* ------------------------------------------------------------- exceptions
Exc(msg) == [type |-> "Exception", msg |-> msg]
HTTPException(code, detail) ==
    [type |-> "HTTPException", status_code |-> code, detail |-> detail]

Return(v) == [ok |-> TRUE, value |-> v]
Raise(e) == [ok |-> FALSE, exc |-> e]

\* -------------------------------------------------- the extraction library
StreamUrl == "https://googlevideo.com/stream"

FullInfo ==
    [title |-> "Test Video", thumbnail |-> "http://example.com/thumb.jpg",
     duration |-> "120", uploader |-> "Test Channel", view_count |-> "1000",
     url |-> StreamUrl]
BareInfo == [id |-> "123"]

\* what ydl.extract_info can do: raise, return None, return an info dict
ExtractResults ==
    { [kind |-> "raise", msg |-> "DownloadError"],
      [kind |-> "none"],
      [kind |-> "dict", d |-> FullInfo],
      [kind |-> "dict", d |-> BareInfo] }

NoInfo == [kind |-> "pending"]

\* ------------------------------------------------------------ the handlers
ExtractPrefix == "Failed to extract audio: "
InfoPrefix == "Failed to fetch info: "
FilterDetail == "Only YouTube URLs are supported currently."

\* the filter of resolve_audio: two substring tests on the whole url string
resolve_filter(s) ==
    Contains(<<"youtube", ".com">>, s) \/ Contains(<<"youtu", ".be">>, s)

\* mutant: a failed extraction logs and falls through instead of raising
get_best_audio_url_no_raise(res) ==
    IF res.kind = "dict" /\ "url" \in DOMAIN res.d THEN Return(res.d.url)
    ELSE Return(Null)

\* get_best_audio_url, given what extract_info did: everything raised inside
\* its try block comes out as HTTPException(400)
get_best_audio_url(res) ==
    IF res.kind = "raise"
    THEN Raise(HTTPException(400, <<ExtractPrefix, res.msg>>))
    ELSE IF res.kind = "none"
    THEN Raise(HTTPException(400,
              <<ExtractPrefix, "argument of type 'NoneType' is not iterable">>))
    ELSE IF "url" \in DOMAIN res.d
    THEN Return(res.d.url)
    ELSE Raise(HTTPException(400, <<ExtractPrefix, "No direct URL found">>))

\* mutant: the broad except clause alone, which turns every exception into a 500
resolve_except_broad(e) ==
    HTTPException(500, IF e.type = "HTTPException" THEN e.detail ELSE <<e.msg>>)

\* the except clauses of resolve_audio: HTTPException first, then Exception
resolve_except(e) ==
    IF e.type = "HTTPException" THEN e ELSE HTTPException(500, <<e.msg>>)

\* mutant: a missing record is read as an empty one (info or {})
get_video_info_none_as_empty(res) ==
    IF res.kind = "raise"
    THEN Raise(HTTPException(400, <<InfoPrefix, res.msg>>))
    ELSE Return([title |-> "Unknown Title", thumbnail |-> Null, duration |-> Null,
                 uploader |-> Null, view_count |-> Null])

\* the try block of get_video_info, given what extract_info did
get_video_info(res) ==
    IF res.kind = "raise"
    THEN Raise(HTTPException(400, <<InfoPrefix, res.msg>>))
    ELSE IF res.kind = "none"
    THEN Raise(HTTPException(400,
              <<InfoPrefix, "'NoneType' object has no attribute 'get'">>))
    ELSE Return([title |-> Get(res.d, "title", "Unknown Title"),
                 thumbnail |-> Get(res.d, "thumbnail", Null),
                 duration |-> Get(res.d, "duration", Null),
                 uploader |-> Get(res.d, "uploader", Null),
                 view_count |-> Get(res.d, "view_count", Null)])

\* mutant: another status word
health_check_ok == [status |-> "ok", service |-> "forensic-proxy"]

health_check == [status |-> "operational", service |-> "forensic-proxy"]

\* ----------------------------------------------------------- the responses
NoHeaders == [k \in {} |-> ""]
PNA == "Access-Control-Allow-Private-Network"

JSONResponse(code, content) ==
    [status |-> code, media_type |-> "application/json",
     headers |-> NoHeaders, json |-> content]

StreamingResponse ==
    [status |-> 200, media_type |-> "audio/mpeg",
     headers |-> ("Content-Disposition" :> "attachment; filename=\"forensic-audio.mp3\"")]

\* a route whose handler returns a dict: the dict is the JSON body of a 200
json_route(out) == IF out.ok THEN Return(JSONResponse(200, out.value)) ELSE out

\* what the application below the middleware hands back for a handler's
\* outcome: a returned value or an HTTPException becomes a response, any other
\* exception propagates
call_next(out) ==
    IF out.ok THEN out
    ELSE IF out.exc.type = "HTTPException"
    THEN Return(JSONResponse(out.exc.status_code, [detail |-> out.exc.detail]))
    ELSE out

\* mutant: the except branch answers 500 instead of re-raising
dispatch_swallow(out) ==
    IF out.ok
    THEN Return([out.value EXCEPT !.headers = (PNA :> "true") @@ @])
    ELSE Return(JSONResponse(500, [detail |-> <<out.exc.msg>>]))

\* LogMiddleware.dispatch around one call of call_next
dispatch(out) ==
    IF out.ok
    THEN Return([out.value EXCEPT !.headers = (PNA :> "true") @@ @])
    ELSE Raise(out.exc)

\* mutant: the newest chunk goes out first
forward_reordered(sent, chunk) == <<chunk>> \o sent

\* one chunk of iter_content handed on to the caller
forward(sent, chunk) == Append(sent, chunk)

\* ------------------------------------------------------------------- state
VARIABLES
    env,         \* YOUTUBE_COOKIES: [set, value], fixed for the process
    cookieFile,  \* contents of cookies.txt
    pc,          \* where each request is
    kind,        \* "health", "info" or "resolve"
    url,         \* the url query parameter
    written,     \* the blocks this request has written to cookies.txt, in order
    opts,        \* what get_ydl_opts returned to this request
    info,        \* what extract_info did
    upstream,    \* the upstream response of requests.get
    inner,       \* what call_next gave LogMiddleware.dispatch
    outer,       \* what LogMiddleware.dispatch gave the server
    body,        \* chunks sent to the caller so far
    calls        \* per request: calls of call_next, extract_info, requests.get, open

vars == <<env, cookieFile, pc, kind, url, written, opts, info, upstream,
          inner, outer, body, calls>>

EnvValues ==
    {[set |-> FALSE, value |-> <<>>]}
    \cup {[set |-> TRUE, value |-> [i \in 1..n |-> i]] : n \in 0..MaxCookieBlocks}

NoUrl == [host |-> <<>>, path |-> <<>>]
NoUpstream == [status |-> 0, yielded |-> 0, state |-> "none"]
Pending == [ok |-> FALSE, exc |-> [type |-> "pending"]]
NoCalls == [call_next |-> 0, extract |-> 0, fetch |-> 0, open |-> 0]

Init ==
    /\ env \in EnvValues
    /\ cookieFile = <<>>
    /\ pc = [r \in Requests |-> "idle"]
    /\ kind = [r \in Requests |-> "none"]
    /\ url = [r \in Requests |-> NoUrl]
    /\ written = [r \in Requests |-> <<>>]
    /\ opts = [r \in Requests |-> NoOpts]
    /\ info = [r \in Requests |-> NoInfo]
    /\ upstream = [r \in Requests |-> NoUpstream]
    /\ inner = [r \in Requests |-> Pending]
    /\ outer = [r \in Requests |-> Pending]
    /\ body = [r \in Requests |-> <<>>]
    /\ calls = [r \in Requests |-> NoCalls]

\* the handler's outcome goes through the application and the middleware
Respond(r, out) ==
    /\ inner' = [inner EXCEPT ![r] = call_next(out)]
    /\ outer' = [outer EXCEPT ![r] = dispatch(call_next(out))]
    /\ pc' = [pc EXCEPT ![r] = "done"]

\* ----------------------------------------------------------------- actions
\* GET /health
Health(r) ==
    /\ pc[r] = "idle"
    /\ kind' = [kind EXCEPT ![r] = "health"]
    /\ calls' = [calls EXCEPT ![r].call_next = @ + 1]
    /\ Respond(r, json_route(Return(health_check)))
    /\ UNCHANGED <<env, cookieFile, url, written, opts, info, upstream, body>>

\* GET /info?url=: the handler starts and calls get_ydl_opts; it does not look
\* at the url, which only goes to the extraction library
InfoBegin(r) ==
    /\ pc[r] = "idle"
    /\ kind' = [kind EXCEPT ![r] = "info"]
    /\ calls' = [calls EXCEPT ![r].call_next = @ + 1]
    /\ pc' = [pc EXCEPT ![r] = "opts"]
    /\ UNCHANGED <<env, cookieFile, url, written, opts, info, upstream, inner,
                   outer, body>>

\* GET /resolve?url= with a url the filter lets through
ResolveBegin(r) ==
    /\ pc[r] = "idle"
    /\ \E u \in URLS :
          /\ resolve_filter(UrlString(u))
          /\ url' = [url EXCEPT ![r] = u]
    /\ kind' = [kind EXCEPT ![r] = "resolve"]
    /\ calls' = [calls EXCEPT ![r].call_next = @ + 1]
    /\ pc' = [pc EXCEPT ![r] = "opts"]
    /\ UNCHANGED <<env, cookieFile, written, opts, info, upstream, inner,
                   outer, body>>

\* GET /resolve?url= with a url the filter stops: HTTPException(400), raised
\* before the try block
ResolveReject(r) ==
    /\ pc[r] = "idle"
    /\ \E u \in URLS :
          /\ ~resolve_filter(UrlString(u))
          /\ url' = [url EXCEPT ![r] = u]
    /\ kind' = [kind EXCEPT ![r] = "resolve"]
    /\ calls' = [calls EXCEPT ![r].call_next = @ + 1]
    /\ Respond(r, Raise(HTTPException(400, <<FilterDetail>>)))
    /\ UNCHANGED <<env, cookieFile, written, opts, info, upstream, body>>

\* get_ydl_opts without cookies: nothing is written
OptsMobile(r) ==
    /\ pc[r] = "opts"
    /\ ~has_cookies(env)
    /\ opts' = [opts EXCEPT ![r] = ydl_opts(env)]
    /\ pc' = [pc EXCEPT ![r] = "extract"]
    /\ UNCHANGED <<env, cookieFile, kind, url, written, info, upstream,
                   inner, outer, body, calls>>

\* get_ydl_opts with cookies: open("cookies.txt", "w") truncates the file
OptsOpen(r) ==
    /\ pc[r] = "opts"
    /\ has_cookies(env)
    /\ cookieFile' = <<>>
    /\ calls' = [calls EXCEPT ![r].open = @ + 1]
    /\ IF env.value = <<>>
       THEN /\ opts' = [opts EXCEPT ![r] = ydl_opts(env)]
            /\ pc' = [pc EXCEPT ![r] = "extract"]
       ELSE /\ pc' = [pc EXCEPT ![r] = "write"]
            /\ UNCHANGED opts
    /\ UNCHANGED <<env, kind, url, written, info, upstream, inner, outer, body>>

\* open("cookies.txt", "w") raises OSError: /info calls get_ydl_opts outside
\* its try block, /resolve calls it inside the try block of resolve_audio
OptsOpenFail(r) ==
    /\ pc[r] = "opts"
    /\ has_cookies(env)
    /\ calls' = [calls EXCEPT ![r].open = @ + 1]
    /\ Respond(r, IF kind[r] = "resolve"
                  THEN Raise(resolve_except(Exc("OSError")))
                  ELSE Raise(Exc("OSError")))
    /\ UNCHANGED <<env, cookieFile, kind, url, written, opts, info,
                   upstream, body>>

\* f.write: the next block goes to the file at this writer's offset; after the
\* last one the file is closed and get_ydl_opts returns
OptsWrite(r) ==
    /\ pc[r] = "write"
    /\ cookieFile' = WriteAt(cookieFile, Len(written[r]), env.value[Len(written[r]) + 1])
    /\ written' = [written EXCEPT ![r] = Append(@, env.value[Len(written[r]) + 1])]
    /\ IF Len(written[r]) + 1 = Len(env.value)
       THEN /\ opts' = [opts EXCEPT ![r] = ydl_opts(env)]
            /\ pc' = [pc EXCEPT ![r] = "extract"]
       ELSE UNCHANGED <<opts, pc>>
    /\ UNCHANGED <<env, kind, url, info, upstream, inner, outer, body, calls>>

\* yt_dlp.YoutubeDL(opts).extract_info: the library loads the cookie file the
\* options name, then raises or returns
Extract(r) ==
    /\ pc[r] = "extract"
    /\ calls' = [calls EXCEPT ![r].extract = @ + 1]
    /\ \E res \in ExtractResults :
          /\ info' = [info EXCEPT ![r] = res]
          /\ IF kind[r] = "info"
             THEN Respond(r, json_route(get_video_info(res)))
             ELSE IF get_best_audio_url(res).ok
             THEN /\ pc' = [pc EXCEPT ![r] = "fetch"]
                  /\ UNCHANGED <<inner, outer>>
             ELSE Respond(r, Raise(resolve_except(get_best_audio_url(res).exc)))
    /\ UNCHANGED <<env, cookieFile, kind, url, written, opts, upstream, body>>

\* requests.get(stream_url, stream=True) raises
FetchRaise(r) ==
    /\ pc[r] = "fetch"
    /\ calls' = [calls EXCEPT ![r].fetch = @ + 1]
    /\ upstream' = [upstream EXCEPT ![r].state = "raised"]
    /\ Respond(r, Raise(resolve_except(Exc("ConnectionError"))))
    /\ UNCHANGED <<env, cookieFile, kind, url, written, opts, info, body>>

\* requests.get returns, whatever the upstream's status; the handler returns
\* the StreamingResponse
FetchReturn(r) ==
    /\ pc[r] = "fetch"
    /\ calls' = [calls EXCEPT ![r].fetch = @ + 1]
    /\ \E st \in {200, 403} :
          upstream' = [upstream EXCEPT ![r] =
                          [status |-> st, yielded |-> 0, state |-> "open"]]
    /\ inner' = [inner EXCEPT ![r] = call_next(Return(StreamingResponse))]
    /\ outer' = [outer EXCEPT ![r] = dispatch(call_next(Return(StreamingResponse)))]
    /\ pc' = [pc EXCEPT ![r] = "streaming"]
    /\ UNCHANGED <<env, cookieFile, kind, url, written, opts, info, body>>

\* iter_content yields its next chunk, which is sent on
StreamChunk(r) ==
    /\ pc[r] = "streaming"
    /\ upstream[r].yielded < MaxChunks
    /\ upstream' = [upstream EXCEPT ![r].yielded = @ + 1]
    /\ body' = [body EXCEPT ![r] = forward(@, upstream[r].yielded + 1)]
    /\ UNCHANGED <<env, cookieFile, pc, kind, url, written, opts, info,
                   inner, outer, calls>>

\* iter_content is exhausted
StreamEnd(r) ==
    /\ pc[r] = "streaming"
    /\ upstream' = [upstream EXCEPT ![r].state = "ended"]
    /\ pc' = [pc EXCEPT ![r] = "done"]
    /\ UNCHANGED <<env, cookieFile, kind, url, written, opts, info, inner,
                   outer, body, calls>>

\* iter_content raises part-way: the status line and headers are already out
StreamFail(r) ==
    /\ pc[r] = "streaming"
    /\ upstream' = [upstream EXCEPT ![r].state = "failed"]
    /\ pc' = [pc EXCEPT ![r] = "done"]
    /\ UNCHANGED <<env, cookieFile, kind, url, written, opts, info, inner,
                   outer, body, calls>>

Next ==
    \E r \in Requests :
        \/ Health(r)
        \/ InfoBegin(r)
        \/ ResolveBegin(r)
        \/ ResolveReject(r)
        \/ OptsMobile(r)
        \/ OptsOpen(r)
        \/ OptsOpenFail(r)
        \/ OptsWrite(r)
        \/ Extract(r)
        \/ FetchRaise(r)
        \/ FetchReturn(r)
        \/ StreamChunk(r)
        \/ StreamEnd(r)
        \/ StreamFail(r)

Spec == Init /\ [][Next]_vars

\* ------------------------------------------------------------- properties
Answered(r) == outer[r] # Pending
Got(r) == outer[r].value
Detail(r) == Got(r).json.detail

\* a YouTube host: youtube.com, a subdomain of it, or youtu.be
IsYouTubeHost(h) ==
    \/ h = <<"youtube", ".com">>
    \/ h = <<"youtu", ".be">>
    \/ /\ Len(h) > 3
       /\ SubSeq(h, Len(h) - 2, Len(h)) = <<".", "youtube", ".com">>

ExtractionFailed(r) ==
    \/ info[r].kind \in {"raise", "none"}
    \/ info[r].kind = "dict" /\ "url" \notin DOMAIN info[r].d

\* open("cookies.txt", "w") raised in get_ydl_opts
OpenFailed(r) == pc[r] = "done" /\ calls[r].open = 1 /\ opts[r] = NoOpts

\* C1: on /resolve past the filter, a failed extraction (the library raises,
\* returns None, or returns a record without 'url') is answered 400 with a
\* detail starting 'Failed to extract audio'; any other exception raised before
\* the response is returned (the cookie file cannot be opened, the upstream
\* fetch raises) is answered 500 with the exception's message as the detail.
C1_ResolveErrorTranslation ==
    \A r \in Requests :
        kind[r] = "resolve" /\ resolve_filter(UrlString(url[r])) =>
            /\ ExtractionFailed(r) =>
                  /\ pc[r] = "done" /\ outer[r].ok
                  /\ Got(r).status = 400
                  /\ Head(Detail(r)) = ExtractPrefix
            /\ upstream[r].state = "raised" =>
                  /\ pc[r] = "done" /\ outer[r].ok
                  /\ Got(r).status = 500
                  /\ Detail(r) = <<"ConnectionError">>
            /\ OpenFailed(r) =>
                  /\ outer[r].ok
                  /\ Got(r).status = 500
                  /\ Detail(r) = <<"OSError">>

C1_Witness ==
    \E r, q \in Requests :
        /\ kind[r] = "resolve" /\ info[r].kind = "dict" /\ ExtractionFailed(r)
        /\ kind[q] = "resolve" /\ upstream[q].state = "raised"

\* C2: /resolve answers every url whose host is not a YouTube host with 400 and
\* the detail 'Only YouTube URLs are supported currently.', and resolves or
\* streams nothing for it.
C2_NonYouTubeRejected ==
    \A r \in Requests :
        kind[r] = "resolve" /\ ~IsYouTubeHost(url[r].host) =>
            /\ pc[r] = "done" /\ outer[r].ok
            /\ Got(r).status = 400
            /\ Detail(r) = <<FilterDetail>>
            /\ calls[r].extract = 0 /\ calls[r].fetch = 0

UpstreamFailed(r) ==
    \/ upstream[r].state \in {"raised", "failed"}
    \/ upstream[r].status >= 400

\* C3: whenever the upstream fetch of a /resolve request fails (the call
\* raises, the upstream answers an error status, or a chunk read fails
\* part-way), the caller does not get a 200 response.
C3_UpstreamFailureNever200 ==
    \A r \in Requests :
        kind[r] = "resolve" /\ UpstreamFailed(r) =>
            ~(Answered(r) /\ outer[r].ok /\ Got(r).status = 200)

InfoKeys == {"title", "thumbnail", "duration", "uploader", "view_count"}

\* the two answers of /info: 200 with the five keys copied from the record, or
\* 400 'Failed to fetch info' when the library raised or returned None
InfoAnswer(r) ==
    /\ outer[r].ok
    /\ IF info[r].kind = "dict"
       THEN /\ Got(r).status = 200
            /\ DOMAIN Got(r).json = InfoKeys
            /\ \A k \in InfoKeys :
                  Got(r).json[k] =
                      IF k \in DOMAIN info[r].d THEN info[r].d[k]
                      ELSE IF k = "title" THEN "Unknown Title" ELSE Null
       ELSE /\ info[r].kind \in {"raise", "none"}
            /\ Got(r).status = 400
            /\ Head(Detail(r)) = InfoPrefix

\* C4 as stated: /info answers 200 with exactly the five keys, or 400 with a
\* detail starting 'Failed to fetch info' whenever extraction fails; nothing else.
C4_InfoAlways200Or400 ==
    \A r \in Requests : kind[r] = "info" /\ pc[r] = "done" => InfoAnswer(r)

\* C4 amended: /info answers as stated whenever get_ydl_opts returns; when
\* writing cookies.txt raises, the exception leaves the handler and the
\* middleware unhandled, before the extraction library is invoked.
C4_InfoAnswerOrOpenFailure ==
    \A r \in Requests :
        kind[r] = "info" /\ pc[r] = "done" =>
            IF OpenFailed(r)
            THEN outer[r] = Raise(Exc("OSError")) /\ calls[r].extract = 0
            ELSE InfoAnswer(r)

C4_Witness ==
    \E r, q \in Requests :
        /\ kind[r] = "info" /\ pc[r] = "done" /\ info[r].kind = "none"
        /\ kind[q] = "info" /\ pc[q] = "done" /\ info[q] = [kind |-> "dict", d |-> BareInfo]

\* C5: once the upstream fetch of a /resolve request has returned, the response
\* is 200, audio/mpeg, Content-Disposition attachment with filename
\* "forensic-audio.mp3", and its body is the chunks the upstream has yielded,
\* each once and in the order yielded.
C5_StreamIsUpstreamChunks ==
    \A r \in Requests :
        upstream[r].state \in {"open", "ended", "failed"} =>
            /\ outer[r].ok
            /\ Got(r).status = 200
            /\ Got(r).media_type = "audio/mpeg"
            /\ Got(r).headers["Content-Disposition"] =
                  "attachment; filename=\"forensic-audio.mp3\""
            /\ body[r] = [i \in 1..upstream[r].yielded |-> i]

C5_Witness ==
    \E r \in Requests :
        upstream[r].state = "ended" /\ upstream[r].yielded = MaxChunks /\ MaxChunks > 1

\* C6: what get_ydl_opts returns is decided by YOUTUBE_COOKIES alone: set and
\* non-empty, the request wrote the variable's contents to cookies.txt and the
\* options name the cookie file and the web client, without force_ipv4; unset
\* or empty, they force IPv4 and name the ios and android clients, without a
\* cookie file, and nothing is written. Format, noplaylist and the spoofing
\* headers are there in both.
C6_Strategy ==
    /\ \A r \in Requests :
          opts[r] # NoOpts =>
              /\ IF env.set /\ Len(env.value) > 0
                 THEN /\ written[r] = env.value /\ calls[r].open = 1
                      /\ opts[r].cookiefile = "cookies.txt"
                      /\ opts[r].extractor_args.youtube.player_client = <<"web">>
                      /\ "force_ipv4" \notin DOMAIN opts[r]
                 ELSE /\ written[r] = <<>> /\ calls[r].open = 0
                      /\ opts[r].force_ipv4 = TRUE
                      /\ opts[r].extractor_args.youtube.player_client = <<"ios", "android">>
                      /\ "cookiefile" \notin DOMAIN opts[r]
              /\ opts[r].format = "bestaudio/best"
              /\ opts[r].noplaylist = TRUE
              /\ DOMAIN opts[r].http_headers =
                    {"User-Agent", "Accept", "Accept-Language", "Sec-Fetch-Mode"}
    /\ ~(env.set /\ Len(env.value) > 0) => cookieFile = <<>>

C6_Witness ==
    \E r, q \in Requests :
        /\ r # q /\ env.set /\ Len(env.value) > 0
        /\ opts[r] # NoOpts /\ opts[q] # NoOpts

\* C7: within one /resolve request the extraction library is invoked at most
\* once and only past the filter, the upstream fetch at most once and only
\* after extraction returned a stream url, never after a failed extraction; a
\* request the filter stops invokes neither, nor the cookie-file write.
C7_NoRetriesStepOrder ==
    \A r \in Requests :
        kind[r] = "resolve" =>
            /\ calls[r].extract <= 1 /\ calls[r].fetch <= 1 /\ calls[r].open <= 1
            /\ calls[r].extract > 0 => resolve_filter(UrlString(url[r]))
            /\ calls[r].fetch > 0 => calls[r].extract = 1 /\ ~ExtractionFailed(r)
                                      /\ info[r].d.url = StreamUrl
            /\ ~resolve_filter(UrlString(url[r])) =>
                  /\ calls[r].extract = 0 /\ calls[r].fetch = 0
                  /\ calls[r].open = 0 /\ written[r] = <<>>
            /\ pc[r] = "done" /\ calls[r].open = 1 /\ opts[r] = NoOpts =>
                  calls[r].extract = 0

C7_Witness ==
    \E r, q \in Requests :
        /\ kind[r] = "resolve" /\ pc[r] = "done" /\ calls[r].fetch = 1
        /\ kind[q] = "resolve" /\ pc[q] = "done" /\ ~resolve_filter(UrlString(url[q]))

\* C8: /health answers 200 with {status: 'operational', service:
\* 'forensic-proxy'} whatever YOUTUBE_COOKIES holds and whatever the other
\* requests do, and invokes neither the extraction library, nor the upstream
\* fetch, nor the cookie-file write.
C8_Health ==
    \A r \in Requests :
        kind[r] = "health" =>
            /\ pc[r] = "done" /\ outer[r].ok
            /\ Got(r).status = 200
            /\ Got(r).json = [status |-> "operational", service |-> "forensic-proxy"]
            /\ calls[r].extract = 0 /\ calls[r].fetch = 0 /\ calls[r].open = 0
            /\ written[r] = <<>> /\ opts[r] = NoOpts

C8_Witness ==
    \E r, q \in Requests :
        /\ kind[r] = "health" /\ pc[r] = "done"
        /\ pc[q] = "write" /\ cookieFile = <<>>

\* C9: whenever the extraction library of a request reads cookies.txt, the
\* file holds the complete contents of YOUTUBE_COOKIES.
C9_LibraryReadsCompleteCookies ==
    [][\A r \in Requests :
          Extract(r) /\ "cookiefile" \in DOMAIN opts[r] => cookieFile = env.value]_vars

WithoutHeaders(resp) == [k \in DOMAIN resp \ {"headers"} |-> resp[k]]

\* C10: LogMiddleware.dispatch calls call_next once per request; a response
\* comes out unchanged except for Access-Control-Allow-Private-Network: true,
\* and an exception comes out as the same exception.
C10_Dispatch ==
    \A r \in Requests :
        /\ calls[r].call_next = (IF pc[r] = "idle" THEN 0 ELSE 1)
        /\ Answered(r) =>
              IF inner[r].ok
              THEN /\ outer[r].ok
                   /\ WithoutHeaders(Got(r)) = WithoutHeaders(inner[r].value)
                   /\ DOMAIN Got(r).headers = DOMAIN inner[r].value.headers \cup {PNA}
                   /\ Got(r).headers[PNA] = "true"
                   /\ \A k \in DOMAIN inner[r].value.headers \ {PNA} :
                         Got(r).headers[k] = inner[r].value.headers[k]
              ELSE outer[r] = inner[r]

C10_Witness ==
    \E r, q \in Requests :
        /\ Answered(r) /\ ~inner[r].ok /\ outer[r] = Raise(Exc("OSError"))
        /\ Answered(q) /\ inner[q].ok /\ Got(q).status = 200 /\ kind[q] = "resolve"

====
